---- MODULE Spec2Model ----
(***************************************************************************)
(* Model of the always-online-node supervisor                              *)
(* (crates/always-online-node/src/main.rs).                                *)
(*                                                                         *)
(* main() launches one Holochain runtime, brings the desired hApp bundles  *)
(* into it, and then loops for ever: probe the signal server, relaunch the *)
(* runtime when the probe result changed, relaunch it when more than 30    *)
(* minutes passed since last_boot_time, sleep 30 seconds.                  *)
(*                                                                         *)
(* Every `.await` / `?` of main is one step of the model, pc is the        *)
(* position of main.  The outcome of each external call (launch, shutdown, *)
(* probe, ...) is chosen nondeterministically from the outcomes its Rust   *)
(* return type allows.                                                     *)
(*                                                                         *)
(* Time: clock is the wall clock in seconds.  The loop reads it once per   *)
(* iteration (lines 198-199); the model lets it advance in the sleep of    *)
(* line 214 only, which lasts 30 seconds or longer (the latency of the     *)
(* iteration's calls is accounted to the sleep that follows them).  The    *)
(* clock is taken to be monotonic.                                         *)
(*                                                                         *)
(* Spec is one run of main with no bundle path, through the monitoring     *)
(* loop.  SpecInstall is main up to the monitoring loop for every list of  *)
(* bundle paths, run again on the same data_dir after it has ended.        *)
(***************************************************************************)
EXTENDS Integers, Sequences, FiniteSets, TLC

(* ----------------------------- bounds --------------------------------- *)

\* the loop stops sleeping once the clock has reached MaxClock seconds
MaxClock == 3700

\* one sleep lasts SleepSecs * k seconds for some k in 1..MaxSleepFactor
MaxSleepFactor == 2

\* args.happ_bundles_paths has at most MaxPaths paths
MaxPaths == 3

\* the process is run at most MaxRuns times on the same data_dir
MaxRuns == 2

(* ------------------------- program constants -------------------------- *)

\* line 199: Duration::from_secs(30 * 60)
RebootCeilingSecs == 30 * 60

\* line 214: std::thread::sleep(Duration::from_secs(30))
SleepSecs == 30

\* lines 36-42: Some(WANNetworkConfig {...}); None is the LAN-only configuration
wan_network_config == "WAN"
NoneConfig == "LAN"

(* ---------------------- outcomes of external calls -------------------- *)

\* HolochainRuntime::launch(..).await : Result<HolochainRuntime>
LaunchOutcomes == {"ok", "launch_error"}

\* conductor_handle.shutdown().await : Result<Result<(), ConductorError>, JoinError>
ShutdownOutcomes == {"ok", "join_error", "shutdown_error"}

\* can_connect_to_signal_server(..).await : std::io::Result<()>
ProbeOutcomes == {"connected", "io_error"}

\* admin_websocket().await and list_apps(None).await
CallOutcomes == {"ok", "error"}

(* ------------------------- bundles and cells -------------------------- *)

\* manifest().app_name() of the bundles on disk
AppNames == {"app1", "app2"}
AppNameOrder == << "app1", "app2" >>

\* what a bundle holds besides its manifest name
Contents == {"v1", "v2"}

\* a path whose file mr_bundle::Bundle::read_from_file cannot read or parse
CorruptFile == [name |-> "?", content |-> "unreadable"]

\* the files the paths of args.happ_bundles_paths may point at
BundleFiles == [name : AppNames, content : Contents] \cup {CorruptFile}

NoApp == "absent"
NoBundle == [name |-> "?", content |-> "none"]

\* app_info.cell_info as the conductor reports it for an installed bundle,
\* roles and their cells in one sequence.  kind is the variant of CellInfo,
\* coordinator_zomes the length of dna_def.coordinator_zomes.
CellInfoOf(content) ==
    IF content = "v1"
       THEN << [kind |-> "Stem", coordinator_zomes |-> 1],
               [kind |-> "Provisioned", coordinator_zomes |-> 1] >>
       ELSE << [kind |-> "Provisioned", coordinator_zomes |-> 0],
               [kind |-> "Cloned", coordinator_zomes |-> 2],
               [kind |-> "Provisioned", coordinator_zomes |-> 1] >>

VARIABLES
    lan_only,            \* args.lan_only
    happ_bundles_paths,  \* args.happ_bundles_paths
    pc,                  \* position of main
    runtime,             \* configuration of the handle held in `runtime`, "none" before the first launch
    last_can_connect,    \* line 169
    can_connect,         \* line 176
    last_boot_time,      \* line 173
    clock,               \* std::time::SystemTime::now(), seconds
    live,                \* runtimes launched on data_dir and not shut down
    exit_at,             \* position at which main returned Err or the process was terminated
    term_requested,      \* an external termination request has arrived
    shutdown_res,        \* what the latest conductor_handle.shutdown() returned, "none" before the first
    \* history of the run, written by no guard of the program:
    prev_probe,          \* the probe result observed before the latest one
    probed,              \* the latest probe result
    launch_time,         \* clock at the latest successful launch
    prev_runtime,        \* configuration of the handle the latest launch replaced
    due,                 \* at the probe of this iteration, clock - launch_time exceeded the ceiling
    ever_changed,        \* some probe of the loop differed from the one before it
    cycle_flip,          \* this iteration took the branch of line 180
    cycle_sched,         \* this iteration took the branch of line 199
    cycle_shutdowns,     \* shutdowns requested in this iteration
    cycle_launches,      \* launches completed in this iteration
    launch_res,          \* what the latest HolochainRuntime::launch returned, "none" before the first
    obs_at_launch,       \* last_can_connect as it stood when the current handle came into use
    \* the conductor's state in data_dir, which outlives the process:
    conductor_apps,      \* installed_app_id -> content of the installed bundle, NoApp if absent
    inited,              \* <<installed_app_id, cell number>> whose "init" call returned Ok
    \* lines 105-165:
    installed_apps,      \* line 105: the ids list_apps returned
    app_ids,             \* line 110
    idx,                 \* number of the bundle path the for loop of line 115 stands at
    happ_bundle,         \* line 116
    app_info,            \* line 125: the cells of app_info.cell_info, flattened
    cell_no,             \* number of the cell the loops of lines 135-136 stand at
    \* history of the runs of the process:
    run,                 \* number of this run of the process
    reached_loop,        \* this run reached line 167
    prev_completed,      \* the previous run reached line 167
    run_installs,        \* installed_app_id -> install_app requests submitted in this run
    run_inits,           \* "init" calls made in this run
    cell_calls,          \* cell number -> "init" calls made on that cell of app_info
    init_failed,         \* <<installed_app_id, cell number>> whose "init" call returned Err
    installed_by_runs,   \* the ids install_app returned Ok for, in this run or an earlier one
    cut_short            \* an earlier run was terminated before it reached line 167

vars == << lan_only, happ_bundles_paths, pc, runtime, last_can_connect, can_connect,
           last_boot_time, clock, live, exit_at, term_requested, shutdown_res,
           prev_probe, probed, launch_time, prev_runtime, due, ever_changed, cycle_flip, cycle_sched,
           cycle_shutdowns, cycle_launches, launch_res, obs_at_launch,
           conductor_apps, inited, installed_apps, app_ids, idx, happ_bundle, app_info,
           cell_no, run, reached_loop, prev_completed, run_installs, run_inits, cell_calls,
           init_failed, installed_by_runs, cut_short >>

args == << lan_only, happ_bundles_paths >>
cycle == << cycle_flip, cycle_sched, cycle_shutdowns, cycle_launches >>
probes == << prev_probe, probed, ever_changed, due, shutdown_res >>
launched == << launch_res, obs_at_launch >>
conductor == << conductor_apps, inited >>
locals == << installed_apps, app_ids, idx, happ_bundle, app_info, cell_no >>
runs == << run, reached_loop, prev_completed, run_installs, run_inits, cell_calls, init_failed,
          installed_by_runs, cut_short >>
inst == << conductor, locals, runs >>

(* ------------------------------ helpers ------------------------------- *)

\* lines 95-98, 189-192, 206-209
wan_config_unpinned(lo) == wan_network_config
wan_config(lo) == IF lo THEN NoneConfig ELSE wan_network_config

\* `.is_ok()` of lines 171 and 178
is_ok(res) == res = "connected"

\* line 199: last_boot_time.elapsed()? > Duration::from_secs(30 * 60)
reboot_due_at_ceiling(now, lbt) == now - lbt >= RebootCeilingSecs
reboot_due(now, lbt) == now - lbt > RebootCeilingSecs

\* the `?` of lines 102, 103, 108, 187-188, 194, 204-205, 211:
\* main goes on only with Ok, any Err is returned from main
try_ignoring_err(res, next) == next
try(res, next) == IF res = "ok" THEN next ELSE "failed"

\* lines 218-223: read_from_file(&happ_bundle_path).await
read_from_file(file) == IF file = CorruptFile THEN "error" ELSE "ok"

\* line 118: happ_bundle.manifest().app_name().to_string()
app_name(bundle) == bundle.name

\* lines 120-123: installed_apps.iter().find(|app| app.installed_app_id.eq(&app_id)).is_none()
not_found_always(apps, app_id) == TRUE
not_found(apps, app_id) == app_id \notin apps

\* lines 225-231: cell_id(&cell_info) is Some(..)
cell_id_of_any(cell_info) == TRUE
cell_id(cell_info) == cell_info.kind \in {"Provisioned", "Cloned"}

\* line 145: dna_def.coordinator_zomes.first() is Some(..)
first_zome(cell_info) == cell_info.coordinator_zomes > 0

\* lines 110-113: the ids of the installed apps, in the order list_apps gives them
IdsOf(apps) == LET Installed(n) == apps[n] # NoApp IN SelectSeq(AppNameOrder, Installed)

Terminal == {"failed", "killed"}

(* ------------------------------ startup ------------------------------- *)

Init ==
    /\ lan_only \in BOOLEAN
    /\ happ_bundles_paths = << >>
    /\ pc = "launch"
    /\ runtime = "none"
    /\ last_can_connect = FALSE
    /\ can_connect = FALSE
    /\ last_boot_time = 0
    /\ clock = 0
    /\ live = 0
    /\ exit_at = "none"
    /\ term_requested = FALSE
    /\ shutdown_res = "none"
    /\ prev_probe = FALSE
    /\ probed = FALSE
    /\ launch_time = 0
    /\ prev_runtime = "none"
    /\ due = FALSE
    /\ ever_changed = FALSE
    /\ cycle_flip = FALSE
    /\ cycle_sched = FALSE
    /\ cycle_shutdowns = 0
    /\ cycle_launches = 0
    /\ launch_res = "none"
    /\ obs_at_launch = FALSE
    /\ conductor_apps = [n \in AppNames |-> NoApp]
    /\ inited = {}
    /\ installed_apps = {}
    /\ app_ids = << >>
    /\ idx = 1
    /\ happ_bundle = NoBundle
    /\ app_info = << >>
    /\ cell_no = 1
    /\ run = 1
    /\ reached_loop = FALSE
    /\ prev_completed = FALSE
    /\ run_installs = [n \in AppNames |-> 0]
    /\ run_inits = 0
    /\ cell_calls = << >>
    /\ init_failed = {}
    /\ installed_by_runs = {}
    /\ cut_short = FALSE

\* the launch with a slip: its error is logged and main goes on with the old value of `runtime`
DoLaunchUnchecked(at, next, counted) ==
    /\ pc = at
    /\ \E res \in LaunchOutcomes :
        /\ pc' = next
        /\ IF res = "ok"
              THEN /\ runtime' = wan_config(lan_only)
                   /\ prev_runtime' = runtime
                   /\ live' = live + 1
                   /\ launch_time' = clock
                   /\ cycle_launches' = IF counted THEN cycle_launches + 1 ELSE cycle_launches
              ELSE UNCHANGED << runtime, prev_runtime, live, launch_time, cycle_launches >>
        /\ launch_res' = res
        /\ obs_at_launch' = IF res = "ok" THEN last_can_connect ELSE obs_at_launch
    /\ UNCHANGED << inst, args, last_can_connect, can_connect, last_boot_time, clock, exit_at,
                    term_requested, probes, cycle_flip, cycle_sched, cycle_shutdowns >>

\* the effect of HolochainRuntime::launch(vec_to_locked(vec![])?, config).await?
\* at position `at`, going on at `next`
DoLaunch(at, next, counted) ==
    /\ pc = at
    /\ \E res \in LaunchOutcomes :
        /\ pc' = try(res, next)
        /\ exit_at' = IF pc' = "failed" THEN at ELSE exit_at
        /\ IF res = "ok"
              THEN /\ runtime' = wan_config(lan_only)
                   /\ prev_runtime' = runtime
                   /\ live' = live + 1
                   /\ launch_time' = clock
                   /\ cycle_launches' = IF counted THEN cycle_launches + 1 ELSE cycle_launches
              ELSE UNCHANGED << runtime, prev_runtime, live, launch_time, cycle_launches >>
        /\ launch_res' = res
        /\ obs_at_launch' = IF res = "ok" THEN last_can_connect ELSE obs_at_launch
    /\ UNCHANGED << inst, args, last_can_connect, can_connect, last_boot_time, clock,
                    term_requested, probes, cycle_flip, cycle_sched, cycle_shutdowns >>

\* the effect of runtime.conductor_handle.shutdown().await? followed by result?
DoShutdown(at, next) ==
    /\ pc = at
    /\ \E res \in ShutdownOutcomes :
        /\ pc' = try(res, next)
        /\ exit_at' = IF pc' = "failed" THEN at ELSE exit_at
        /\ live' = IF res = "ok" THEN live - 1 ELSE live
        /\ shutdown_res' = res
    /\ cycle_shutdowns' = cycle_shutdowns + 1
    /\ UNCHANGED << inst, launched, args, runtime, last_can_connect, can_connect, last_boot_time, clock,
                    term_requested, prev_probe, probed, ever_changed, due, launch_time,
                    prev_runtime, cycle_flip, cycle_sched, cycle_launches >>

\* lines 95-102
Launch == DoLaunch("launch", "admin_ws", FALSE)

\* line 103
AdminWebsocket ==
    /\ pc = "admin_ws"
    /\ \E res \in CallOutcomes :
        /\ pc' = try(res, "list_apps")
        /\ exit_at' = IF pc' = "failed" THEN "admin_ws" ELSE exit_at
    /\ UNCHANGED << inst, launched, args, runtime, last_can_connect, can_connect, last_boot_time, clock,
                    live, term_requested, probes, launch_time, prev_runtime, cycle >>

\* lines 105-113
ListApps ==
    /\ pc = "list_apps"
    /\ \E res \in CallOutcomes :
        /\ pc' = try(res, "bundles")
        /\ exit_at' = IF pc' = "failed" THEN "list_apps" ELSE exit_at
        /\ IF res = "ok"
              THEN /\ installed_apps' = {n \in AppNames : conductor_apps[n] # NoApp}
                   /\ app_ids' = IdsOf(conductor_apps)
              ELSE UNCHANGED << installed_apps, app_ids >>
    /\ UNCHANGED << conductor, idx, happ_bundle, app_info, cell_no, runs, launched, args, runtime, last_can_connect, can_connect, last_boot_time, clock,
                    live, term_requested, probes, launch_time, prev_runtime, cycle >>

\* lines 115, 165-167: the for loop has no bundle path left
BundlesDone ==
    /\ pc = "bundles"
    /\ idx > Len(happ_bundles_paths)
    /\ pc' = "first_probe"
    /\ reached_loop' = TRUE
    /\ UNCHANGED << conductor, locals, run, prev_completed, run_installs, run_inits,
                    cell_calls, init_failed, installed_by_runs, cut_short, launched, args, runtime, last_can_connect, can_connect, last_boot_time, clock,
                    live, exit_at, term_requested, probes, launch_time, prev_runtime, cycle >>

\* lines 169-173
FirstProbe ==
    /\ pc = "first_probe"
    /\ \E res \in ProbeOutcomes :
        /\ last_can_connect' = is_ok(res)
        /\ probed' = (res = "connected")
    /\ last_boot_time' = clock
    /\ pc' = "probe"
    /\ obs_at_launch' = last_can_connect'
    /\ UNCHANGED << inst, launch_res, args, runtime, can_connect, clock, live, exit_at, term_requested,
                    shutdown_res, prev_probe, ever_changed, due, launch_time, prev_runtime,
                    cycle >>

(* ------------------------------ installer ----------------------------- *)

\* what the steps of lines 115-165 leave alone
sup == << runtime, last_can_connect, can_connect, last_boot_time, clock, live, term_requested,
          probes, launch_time, prev_runtime, cycle, launched >>

\* lines 115-124: read the next bundle, derive its id, look it up in installed_apps
ReadBundle ==
    /\ pc = "bundles"
    /\ idx <= Len(happ_bundles_paths)
    /\ LET file == happ_bundles_paths[idx]
           app_id == app_name(file)
       IN  IF read_from_file(file) = "ok"
              THEN /\ happ_bundle' = file
                   /\ IF not_found(installed_apps, app_id)
                         THEN /\ pc' = "install_app"
                              /\ UNCHANGED idx
                         ELSE /\ pc' = "bundles"
                              /\ idx' = idx + 1
                   /\ UNCHANGED exit_at
              ELSE /\ pc' = try(read_from_file(file), "install_app")
                   /\ exit_at' = "read_bundle"
                   /\ UNCHANGED << happ_bundle, idx >>
    /\ UNCHANGED << conductor, installed_apps, app_ids, app_info, cell_no, runs, args, sup >>

\* lines 125-127: runtime.install_app(app_id.clone(), happ_bundle, None, None, None).await?
\* The conductor keeps installed_app_id unique: it answers Ok only when no app of
\* that id is installed.
InstallApp ==
    /\ pc = "install_app"
    /\ LET app_id == app_name(happ_bundle) IN
       \E res \in CallOutcomes :
        /\ res = "ok" => conductor_apps[app_id] = NoApp
        /\ run_installs' = [run_installs EXCEPT ![app_id] = @ + 1]
        /\ pc' = try(res, "app_ws")
        /\ exit_at' = IF pc' = "failed" THEN "install_app" ELSE exit_at
        /\ IF res = "ok"
              THEN /\ conductor_apps' = [conductor_apps EXCEPT ![app_id] = happ_bundle.content]
                   /\ app_info' = CellInfoOf(happ_bundle.content)
                   /\ cell_no' = 1
                   /\ cell_calls' = [i \in 1..Len(app_info') |-> 0]
                   /\ installed_by_runs' = installed_by_runs \cup {app_id}
              ELSE UNCHANGED << conductor_apps, app_info, cell_no, cell_calls,
                                installed_by_runs >>
    /\ UNCHANGED << inited, installed_apps, app_ids, idx, happ_bundle, run, reached_loop,
                    prev_completed, run_inits, init_failed, cut_short, args, sup >>

\* lines 128-133: runtime.app_websocket(..).await?
AppWebsocket ==
    /\ pc = "app_ws"
    /\ \E res \in CallOutcomes :
        /\ pc' = try(res, "cells")
        /\ exit_at' = IF pc' = "failed" THEN "app_ws" ELSE exit_at
    /\ UNCHANGED << inst, args, sup >>

\* lines 135-139: the next cell_info; one without a cell id is passed over
NextCell ==
    /\ pc = "cells"
    /\ cell_no <= Len(app_info)
    /\ IF cell_id(app_info[cell_no])
          THEN /\ pc' = "dna_def"
               /\ UNCHANGED cell_no
          ELSE /\ pc' = "cells"
               /\ cell_no' = cell_no + 1
    /\ UNCHANGED << conductor, installed_apps, app_ids, idx, happ_bundle, app_info, runs,
                    exit_at, args, sup >>

\* lines 140-147: admin_ws.get_dna_definition(..).await?, then the first coordinator zome
GetDnaDefinition ==
    /\ pc = "dna_def"
    /\ \E res \in CallOutcomes :
        /\ exit_at' = IF res = "ok" THEN exit_at ELSE "dna_def"
        /\ IF res = "ok" /\ ~first_zome(app_info[cell_no])
              THEN /\ pc' = "cells"
                   /\ cell_no' = cell_no + 1
              ELSE /\ pc' = try(res, "call_zome")
                   /\ UNCHANGED cell_no
    /\ UNCHANGED << conductor, installed_apps, app_ids, idx, happ_bundle, app_info, runs,
                    args, sup >>

\* lines 149-157, with a slip: an app whose "init" failed is uninstalled again
CallZomeRollingBack ==
    /\ pc = "call_zome"
    /\ LET cell == << app_name(happ_bundle), cell_no >> IN
       \E res \in CallOutcomes :
        /\ run_inits' = run_inits + 1
        /\ cell_calls' = [cell_calls EXCEPT ![cell_no] = @ + 1]
        /\ IF res = "ok"
              THEN /\ inited' = inited \cup {cell}
                   /\ cell_no' = cell_no + 1
                   /\ pc' = "cells"
                   /\ UNCHANGED << exit_at, init_failed, conductor_apps >>
              ELSE /\ init_failed' = init_failed \cup {cell}
                   /\ pc' = try(res, "cells")
                   /\ exit_at' = "call_zome"
                   /\ conductor_apps' = [conductor_apps EXCEPT ![cell[1]] = NoApp]
                   /\ inited' = {c \in inited : c[1] # cell[1]}
                   /\ UNCHANGED << cell_no >>
    /\ UNCHANGED << installed_apps, app_ids, idx, happ_bundle, app_info, run,
                    reached_loop, prev_completed, run_installs, installed_by_runs, cut_short, args,
                    sup >>

\* lines 149-157: app_ws.call_zome(CellId(cell_id), first_zome, "init", ..).await?
CallZome ==
    /\ pc = "call_zome"
    /\ LET cell == << app_name(happ_bundle), cell_no >> IN
       \E res \in CallOutcomes :
        /\ run_inits' = run_inits + 1
        /\ cell_calls' = [cell_calls EXCEPT ![cell_no] = @ + 1]
        /\ IF res = "ok"
              THEN /\ inited' = inited \cup {cell}
                   /\ cell_no' = cell_no + 1
                   /\ pc' = "cells"
                   /\ UNCHANGED << exit_at, init_failed >>
              ELSE /\ init_failed' = init_failed \cup {cell}
                   /\ pc' = try(res, "cells")
                   /\ exit_at' = "call_zome"
                   /\ UNCHANGED << inited, cell_no >>
    /\ UNCHANGED << conductor_apps, installed_apps, app_ids, idx, happ_bundle, app_info, run,
                    reached_loop, prev_completed, run_installs, installed_by_runs, cut_short, args,
                    sup >>

\* lines 159-164: the cells are done, the id is pushed and the for loop goes on
AppInstalled ==
    /\ pc = "cells"
    /\ cell_no > Len(app_info)
    /\ app_ids' = Append(app_ids, app_name(happ_bundle))
    /\ idx' = idx + 1
    /\ pc' = "bundles"
    /\ UNCHANGED << conductor, installed_apps, happ_bundle, app_info, cell_no, runs,
                    exit_at, args, sup >>

(* --------------------------- monitoring loop -------------------------- *)

\* lines 175-178, with a slip: the probe's io::Error is propagated with `?`
ProbePropagating ==
    /\ pc = "probe"
    /\ \E res \in ProbeOutcomes :
        /\ can_connect' = is_ok(res)
        /\ probed' = (res = "connected")
        /\ pc' = IF res = "connected" THEN "flip_check" ELSE "failed"
        /\ exit_at' = IF res = "connected" THEN exit_at ELSE "probe"
    /\ prev_probe' = probed
    /\ ever_changed' = (ever_changed \/ probed' # probed)
    /\ due' = (clock - launch_time > RebootCeilingSecs)
    /\ cycle_flip' = FALSE
    /\ cycle_sched' = FALSE
    /\ cycle_shutdowns' = 0
    /\ cycle_launches' = 0
    /\ UNCHANGED << inst, launched, args, runtime, last_can_connect, last_boot_time, clock, live,
                    term_requested, shutdown_res, launch_time, prev_runtime >>

\* lines 175-178
Probe ==
    /\ pc = "probe"
    /\ \E res \in ProbeOutcomes :
        /\ can_connect' = is_ok(res)
        /\ probed' = (res = "connected")
    /\ prev_probe' = probed
    /\ ever_changed' = (ever_changed \/ probed' # probed)
    /\ due' = (clock - launch_time > RebootCeilingSecs)
    /\ cycle_flip' = FALSE
    /\ cycle_sched' = FALSE
    /\ cycle_shutdowns' = 0
    /\ cycle_launches' = 0
    /\ pc' = "flip_check"
    /\ UNCHANGED << inst, launched, args, runtime, last_can_connect, last_boot_time, clock, live,
                    exit_at, term_requested, shutdown_res, launch_time, prev_runtime >>

\* lines 180-186, with a slip: the observation is not stored
FlipCheckForgetful ==
    /\ pc = "flip_check"
    /\ IF last_can_connect # can_connect
          THEN /\ pc' = "flip_shutdown"
               /\ cycle_flip' = TRUE
          ELSE /\ pc' = "sched_check"
               /\ UNCHANGED cycle_flip
    /\ UNCHANGED << inst, launched, args, runtime, last_can_connect, can_connect, last_boot_time, clock, live,
                    exit_at, term_requested, probes, launch_time, prev_runtime,
                    cycle_sched, cycle_shutdowns, cycle_launches >>

\* lines 180-186
FlipCheck ==
    /\ pc = "flip_check"
    /\ IF last_can_connect # can_connect
          THEN /\ last_can_connect' = can_connect
               /\ pc' = "flip_shutdown"
               /\ cycle_flip' = TRUE
          ELSE /\ pc' = "sched_check"
               /\ UNCHANGED << last_can_connect, cycle_flip >>
    /\ UNCHANGED << inst, launched, args, runtime, can_connect, last_boot_time, clock, live,
                    exit_at, term_requested, probes, launch_time, prev_runtime,
                    cycle_sched, cycle_shutdowns, cycle_launches >>

\* lines 187-188, with a slip: the old handle is dropped without a shutdown
FlipShutdownSkipped ==
    /\ pc = "flip_shutdown"
    /\ pc' = "flip_launch"
    /\ UNCHANGED << inst, launched, args, runtime, last_can_connect, can_connect, last_boot_time, clock, live,
                    exit_at, term_requested, probes, launch_time, prev_runtime, cycle >>

\* lines 187-188
FlipShutdown == DoShutdown("flip_shutdown", "flip_launch")

\* lines 189-194
FlipLaunch == DoLaunch("flip_launch", "sched_check", TRUE)

\* lines 197-202
SchedCheck ==
    /\ pc = "sched_check"
    /\ LET now == clock IN
       IF reboot_due(clock, last_boot_time)
          THEN /\ last_boot_time' = now
               /\ pc' = "sched_shutdown"
               /\ cycle_sched' = TRUE
          ELSE /\ pc' = "sleep"
               /\ UNCHANGED << last_boot_time, cycle_sched >>
    /\ UNCHANGED << inst, launched, args, runtime, last_can_connect, can_connect, clock, live,
                    exit_at, term_requested, probes, launch_time, prev_runtime,
                    cycle_flip, cycle_shutdowns, cycle_launches >>

\* lines 204-205
SchedShutdown == DoShutdown("sched_shutdown", "sched_launch")

\* lines 206-211
SchedLaunch == DoLaunch("sched_launch", "sleep", TRUE)

\* line 214
Sleep ==
    /\ pc = "sleep"
    /\ clock < MaxClock
    /\ \E k \in 1..MaxSleepFactor : clock' = clock + SleepSecs * k
    /\ pc' = "probe"
    /\ UNCHANGED << inst, launched, args, runtime, last_can_connect, can_connect, last_boot_time, live,
                    exit_at, term_requested, probes, launch_time, prev_runtime, cycle >>

(* ----------------------- termination request -------------------------- *)

\* main registers no signal handler and the loop of lines 175-215 polls no
\* cancellation flag: a termination request (SIGINT, SIGTERM) takes the
\* default disposition and ends the process wherever main is, without
\* running any of its code.
Terminate ==
    /\ pc \notin Terminal
    /\ term_requested' = TRUE
    /\ exit_at' = pc
    /\ pc' = "killed"
    /\ UNCHANGED << inst, launched, args, runtime, last_can_connect, can_connect, last_boot_time, clock, live,
                    probes, launch_time, prev_runtime, cycle >>

Next ==
    \/ Launch
    \/ AdminWebsocket
    \/ ListApps
    \/ BundlesDone
    \/ FirstProbe
    \/ Probe
    \/ FlipCheck
    \/ FlipShutdown
    \/ FlipLaunch
    \/ SchedCheck
    \/ SchedShutdown
    \/ SchedLaunch
    \/ Sleep
    \/ Terminate

Spec == Init /\ [][Next]_vars

(* ------------------------- runs of the process ------------------------ *)

\* a cell "init" is called on: it has a cell id and a coordinator zome
HasInit(cell_info) ==
    cell_info.kind \in {"Provisioned", "Cloned"} /\ cell_info.coordinator_zomes > 0

InitCellsOf(app_id, content) ==
    {<< app_id, i >> : i \in {j \in 1..Len(CellInfoOf(content)) : HasInit(CellInfoOf(content)[j])}}

\* lines 60-102: the process is started again with the same arguments on the
\* same data_dir, after main returned an error or the process was terminated.
\* What the conductor stored in data_dir is all that is left of the run before.
Rerun ==
    /\ pc \in Terminal
    /\ run < MaxRuns
    /\ run' = run + 1
    /\ prev_completed' = reached_loop
    /\ cut_short' = (cut_short \/ (pc = "killed" /\ ~reached_loop))
    /\ reached_loop' = FALSE
    /\ run_installs' = [n \in AppNames |-> 0]
    /\ run_inits' = 0
    /\ cell_calls' = << >>
    /\ pc' = "launch"
    /\ runtime' = "none"
    /\ last_can_connect' = FALSE
    /\ can_connect' = FALSE
    /\ last_boot_time' = 0
    /\ live' = 0
    /\ exit_at' = "none"
    /\ term_requested' = FALSE
    /\ shutdown_res' = "none"
    /\ prev_probe' = FALSE
    /\ probed' = FALSE
    /\ launch_time' = 0
    /\ prev_runtime' = "none"
    /\ due' = FALSE
    /\ ever_changed' = FALSE
    /\ cycle_flip' = FALSE
    /\ cycle_sched' = FALSE
    /\ cycle_shutdowns' = 0
    /\ cycle_launches' = 0
    /\ launch_res' = "none"
    /\ obs_at_launch' = FALSE
    /\ installed_apps' = {}
    /\ app_ids' = << >>
    /\ idx' = 1
    /\ happ_bundle' = NoBundle
    /\ app_info' = << >>
    /\ cell_no' = 1
    /\ UNCHANGED << args, conductor, clock, init_failed, installed_by_runs >>

\* any list of at most MaxPaths bundle files, on a data_dir in which earlier
\* runs may have installed apps and initialised their cells
InitInstall ==
    /\ lan_only = FALSE
    /\ happ_bundles_paths \in UNION {[1..n -> BundleFiles] : n \in 0..MaxPaths}
    /\ conductor_apps \in [AppNames -> Contents \cup {NoApp}]
    /\ inited = UNION {InitCellsOf(n, conductor_apps[n]) : n \in {m \in AppNames : conductor_apps[m] # NoApp}}
    /\ pc = "launch"
    /\ runtime = "none"
    /\ last_can_connect = FALSE
    /\ can_connect = FALSE
    /\ last_boot_time = 0
    /\ clock = 0
    /\ live = 0
    /\ exit_at = "none"
    /\ term_requested = FALSE
    /\ shutdown_res = "none"
    /\ prev_probe = FALSE
    /\ probed = FALSE
    /\ launch_time = 0
    /\ prev_runtime = "none"
    /\ due = FALSE
    /\ ever_changed = FALSE
    /\ cycle_flip = FALSE
    /\ cycle_sched = FALSE
    /\ cycle_shutdowns = 0
    /\ cycle_launches = 0
    /\ launch_res = "none"
    /\ obs_at_launch = FALSE
    /\ installed_apps = {}
    /\ app_ids = << >>
    /\ idx = 1
    /\ happ_bundle = NoBundle
    /\ app_info = << >>
    /\ cell_no = 1
    /\ run = 1
    /\ reached_loop = FALSE
    /\ prev_completed = FALSE
    /\ run_installs = [n \in AppNames |-> 0]
    /\ run_inits = 0
    /\ cell_calls = << >>
    /\ init_failed = {}
    /\ installed_by_runs = {}
    /\ cut_short = FALSE

\* the runs of the process up to the monitoring loop, which they leave only
\* by the end of the process
NextInstall ==
    \/ Launch
    \/ AdminWebsocket
    \/ ListApps
    \/ ReadBundle
    \/ InstallApp
    \/ AppWebsocket
    \/ NextCell
    \/ GetDnaDefinition
    \/ CallZome
    \/ AppInstalled
    \/ BundlesDone
    \/ Terminate
    \/ Rerun

SpecInstall == InitInstall /\ [][NextInstall]_vars

TypeOK ==
    /\ lan_only \in BOOLEAN
    /\ pc \in {"launch", "admin_ws", "list_apps", "bundles", "install_app", "app_ws", "cells",
               "dna_def", "call_zome", "first_probe", "probe",
               "flip_check", "flip_shutdown", "flip_launch", "sched_check",
               "sched_shutdown", "sched_launch", "sleep", "failed", "killed"}
    /\ runtime \in {"none", "WAN", "LAN"}
    /\ last_can_connect \in BOOLEAN
    /\ can_connect \in BOOLEAN
    /\ last_boot_time \in 0..clock
    /\ clock \in Nat
    /\ live \in Nat
    /\ idx \in 1..(Len(happ_bundles_paths) + 1)
    /\ cell_no \in 1..(Len(app_info) + 1)
    /\ installed_apps \subseteq AppNames
    /\ run \in 1..MaxRuns

(* ------------------------------ properties ---------------------------- *)

RestartLaunchPositions == {"flip_launch", "sched_launch"}

AfterFlipCheck == {"flip_shutdown", "flip_launch", "sched_check", "sched_shutdown",
                   "sched_launch", "sleep"}

\* the mode the probe result asks for
ProbedMode == IF probed THEN "WAN" ELSE "LAN"

\* C1: at most one runtime is live on the data directory, and main stands
\* before the launch of a restart only when the handle it replaces has been
\* shut down with success (no runtime is live at that point).
C1_OneLiveRuntime ==
    /\ live <= 1
    /\ (pc \in RestartLaunchPositions => live = 0 /\ shutdown_res = "ok")

C1_Witness ==
    /\ pc = "sleep"
    /\ cycle_shutdowns = 1
    /\ cycle_launches = 1
    /\ live = 1

\* C2 (as claimed): without the LAN-only pin, the runtime relaunched in an
\* iteration whose probe result differs from the previous one has the mode
\* of the new result: WAN if reachable, LAN-only if unreachable.
C2_FlipRelaunchUsesProbedMode ==
    (pc = "sched_check" /\ ~lan_only /\ prev_probe # probed /\ cycle_launches = 1)
        => runtime = ProbedMode

\* C3 (as claimed): an iteration in which the probe result changed and the
\* scheduled restart was due as well does one shutdown and one relaunch.
C3_BothTriggersOneRestart ==
    (pc = "sleep" /\ prev_probe # probed /\ due)
        => cycle_shutdowns = 1 /\ cycle_launches = 1

\* C4 (as claimed): a scheduled restart begins only when more than the
\* ceiling has passed since the latest launch of the runtime, whatever
\* caused that launch.
C4_ScheduledRestartCountsFromLatestLaunch ==
    pc = "sched_shutdown" => clock - launch_time > RebootCeilingSecs

\* C5: while every probe returned the same result, an iteration restarts the
\* runtime once if more than the ceiling has passed since the latest launch
\* and not at all otherwise, and the relaunch has the mode of the handle it
\* replaces.
C5_ConstantProbeOneRestartPerCrossing ==
    (pc = "sleep" /\ ~ever_changed)
        => /\ cycle_launches = (IF due THEN 1 ELSE 0)
           /\ cycle_shutdowns = cycle_launches
           /\ (cycle_launches = 1 => runtime = prev_runtime)

C5_Witness ==
    /\ pc = "sleep"
    /\ ~ever_changed
    /\ due
    /\ cycle_launches = 1
    /\ runtime = prev_runtime

\* C6: with lan_only set no handle has a WAN configuration, and once the
\* comparison of line 180 is done the stored observation is the latest
\* probe result.
C6_PinnedLanOnly ==
    lan_only => /\ runtime # "WAN"
                /\ (pc \in AfterFlipCheck => last_can_connect = probed)

C6_Witness ==
    /\ lan_only
    /\ pc = "sched_check"
    /\ ~prev_probe
    /\ probed
    /\ last_can_connect
    /\ cycle_launches = 1
    /\ runtime = "LAN"

C8_TerminationShutsRuntimeDown ==
    (pc = "killed" /\ term_requested) => live = 0

\* C9 (as claimed): the process never stops on a termination request while
\* a restart is in progress, that is after the shutdown of the old handle
\* and before the launch of the new one has returned.
C9_TerminationExcludesRestart ==
    pc = "killed" => exit_at \notin RestartLaunchPositions

\* C10: once a shutdown has returned an error, main has returned that error
\* from the shutdown's position: the failed handle is still the only one,
\* nothing has been launched after it and the loop does not go on.
C10_ShutdownFailureIsFatal ==
    shutdown_res \in {"join_error", "shutdown_error"}
        => /\ pc = "failed"
           /\ exit_at \in {"flip_shutdown", "sched_shutdown"}
           /\ live = 1
           /\ cycle_launches = (IF exit_at = "sched_shutdown" /\ cycle_flip THEN 1 ELSE 0)

C10_Witness ==
    /\ shutdown_res = "shutdown_error"
    /\ pc = "failed"
    /\ exit_at = "sched_shutdown"

\* the positions at which main uses the handle held in `runtime`
WithRuntime == {"admin_ws", "list_apps", "bundles", "install_app", "app_ws", "cells", "dna_def",
                "call_zome", "first_probe", "probe", "flip_check", "flip_shutdown",
                "sched_check", "sched_shutdown", "sleep"}

\* C11: once a launch has returned an error, main has returned that error
\* from the launch's position and no runtime is live; wherever main lists,
\* installs, polls or begins a restart, the latest launch had succeeded and
\* its runtime is live.
C11_LaunchFailureIsFatal ==
    /\ launch_res = "launch_error"
        => /\ pc = "failed"
           /\ exit_at \in {"launch", "flip_launch", "sched_launch"}
           /\ live = 0
    /\ pc \in WithRuntime => launch_res = "ok" /\ live = 1

C11_Witness ==
    /\ launch_res = "launch_error"
    /\ pc = "failed"
    /\ exit_at = "flip_launch"
    /\ live = 0

\* C12: a run that follows a run which got through the for loop of line 115,
\* with the same bundle paths on the same data_dir, submits no install
\* request and makes no "init" call.
C12_SecondRunInstallsNothing ==
    (run > 1 /\ prev_completed)
        => /\ \A n \in AppNames : run_installs[n] = 0
           /\ run_inits = 0

C12_Witness ==
    /\ run = 2
    /\ prev_completed
    /\ reached_loop
    /\ installed_by_runs # {}
    /\ \A n \in AppNames : run_installs[n] = 0
    /\ run_inits = 0

\* the steps that concern one application: reading its bundle, installing
\* it, calling "init" on its cells
PerAppPositions == {"read_bundle", "install_app", "call_zome"}

\* C13 (as claimed): the failure of a step that concerns one application
\* does not end the run; main goes on with the next bundle path.
C13_PerAppFailureDoesNotStopRun ==
    pc = "failed" => exit_at \notin PerAppPositions

\* C14 (as claimed): the id of a bundle is decided by its content, so a
\* bundle whose content differs from what is installed is installed as an
\* application of its own: once a run is through the for loop, the
\* conductor holds every desired bundle with the content it has on disk.
C14_ChangedBundleIsInstalled ==
    pc = "first_probe"
        => \A i \in 1..Len(happ_bundles_paths) :
              conductor_apps[app_name(happ_bundles_paths[i])] = happ_bundles_paths[i].content

\* C15: while main goes through the cells of a newly installed app, "init"
\* has been called once on every cell it has passed that has a cell id and a
\* coordinator zome, and on no other cell; it stands before an "init" call
\* only at such a cell.  (A stem cell has no cell id, nothing can be called
\* on it: it counts as a cell that exposes no entry point.)
C15_InitOncePerCellWithEntryPoint ==
    pc \in {"cells", "dna_def", "call_zome"}
        => /\ \A i \in 1..Len(app_info) :
                cell_calls[i] = (IF i < cell_no /\ HasInit(app_info[i]) THEN 1 ELSE 0)
           /\ (pc = "call_zome" => HasInit(app_info[cell_no]))

C15_Witness ==
    /\ pc = "cells"
    /\ cell_no > Len(app_info)
    /\ app_info = CellInfoOf("v2")
    /\ cell_calls = << 0, 1, 1 >>

\* C16: an app one of whose "init" calls returned an error stays installed
\* in the conductor; when main has returned that error, the cells of the
\* app it had initialised before are still initialised; and main goes past
\* a cell it called "init" on only if the call returned Ok.
C16_InitFailureKeepsInstall ==
    /\ \A c \in init_failed : conductor_apps[c[1]] # NoApp
    /\ (pc = "failed" /\ exit_at = "call_zome")
        => /\ << app_name(happ_bundle), cell_no >> \in init_failed
           /\ conductor_apps[app_name(happ_bundle)] = happ_bundle.content
           /\ \A i \in 1..(cell_no - 1) :
                HasInit(app_info[i]) => << app_name(happ_bundle), i >> \in inited
    /\ pc \in {"cells", "dna_def", "call_zome"}
        => \A i \in 1..(cell_no - 1) :
                cell_calls[i] = 1 => << app_name(happ_bundle), i >> \in inited

C16_Witness ==
    /\ pc = "failed"
    /\ exit_at = "call_zome"
    /\ happ_bundle = [name |-> "app1", content |-> "v2"]
    /\ cell_no = 3
    /\ << "app1", 2 >> \in inited
    /\ << "app1", 3 >> \in init_failed
    /\ conductor_apps["app1"] = "v2"

\* C17 (as claimed): the recorded reachability is, in every state, the one
\* that stood when the current handle came into use: it changes only with
\* the successful launch of a new handle.
C17_RecordChangesOnlyWithLaunch ==
    last_can_connect = obs_at_launch

\* C18: main never returns an error from a probe; after the probe of an
\* iteration can_connect is TRUE exactly if the probe connected, and when
\* main stands before a probe the record holds the result of the latest
\* one, failed or not.
C18_ProbeFailureIsNotFatal ==
    /\ pc = "failed" => exit_at \notin {"first_probe", "probe"}
    /\ pc = "flip_check" => can_connect = probed
    /\ pc = "probe" => last_can_connect = probed

C18_Witness ==
    /\ pc = "flip_check"
    /\ clock > 0
    /\ ~probed
    /\ ~can_connect
    /\ last_can_connect

\* C19 (as claimed): in one run, at most one install request is submitted
\* for an application id.
C19_OneInstallRequestPerId ==
    \A n \in AppNames : run_installs[n] <= 1

\* C20 (as claimed): when a run reaches the monitoring loop, every desired
\* application is installed and every cell of it that has an entry point
\* has had its "init" call return Ok, in this run or an earlier one
\* (the earlier runs having ended by an error or after they reached the loop).
C20_LoopReachedMeansInitialised ==
    (pc = "first_probe" /\ ~cut_short)
        => \A i \in 1..Len(happ_bundles_paths) :
              LET app_id == app_name(happ_bundles_paths[i]) IN
              /\ conductor_apps[app_id] # NoApp
              /\ InitCellsOf(app_id, conductor_apps[app_id]) \subseteq inited

====
